---------------------------- MODULE Spec2Model ----------------------------
(***************************************************************************)
(* Challenge lifecycle engine of the MFA verification layer                *)
(* (backend/services/auth_service.py, validation_service.py,               *)
(* cleanup_service.py, health_service.py, config.py).                      *)
(*                                                                         *)
(* The Flask application serves every request on a thread of its own, so   *)
(* the handlers run concurrently against the one module-level dictionary   *)
(* active_challenges.  A handler that other requests can race with is      *)
(* modelled as a sequence of steps, one per access to shared state (the    *)
(* dictionary, a challenge_info object, the wall clock); the steps of      *)
(* different requests interleave freely.  Time is counted in minutes.      *)
(***************************************************************************)
EXTENDS Integers, FiniteSets, Sequences, Bags, TLC

(***************************************************************************)
(* Bounds of the model.                                                    *)
(***************************************************************************)
\* HTTP requests (init, verify, health) received in one behaviour
MaxRequests == 4
\* /authpay/init requests received in one behaviour of AdmissionSpec
MaxAdmissions == 1
\* /authpay/init requests received in one behaviour of IssueSpec
MaxIssues == 2
\* HTTP requests received in one behaviour of RaceSpec
MaxRaces == 3
\* HTTP requests received in one behaviour of SerialSpec
MaxSerial == 4
\* /authpay/init and /authpay/verify requests received in one behaviour of
\* LiveSpec
MaxLive == 2
\* create_auth_url calls in one behaviour of DuoSpec
MaxTransactions == 1

(***************************************************************************)
(* Program constants (config.py).                                          *)
(***************************************************************************)
CHALLENGE_EXPIRY_MINUTES == 15
MFA_REQUIRED_AMOUNT == 100
HIGH_AMOUNT == 1000
SUPPORTED_CURRENCIES == {"USD", "EUR", "GBP"}
HIGH_RISK_COUNTRIES == {"NG", "PK", "IR"}
DEFAULT_MERCHANT_ID == "demo_merchant"
DEFAULT_API_KEY == "sk_test_demo_key_12345"
DEFAULT_CURRENCY == "USD"
DEFAULT_EMAIL == "user@example.com"
MERCHANT_API_KEYS == [m \in {"demo_merchant"} |-> "sk_test_demo_key_12345"]

(***************************************************************************)
(* Python values.  NONE is Python's None, also what dict.get returns for   *)
(* an absent key; Unset marks a key a challenge_info does not have yet.    *)
(***************************************************************************)
NONE == "None"
Unset == -1
\* a JSON number where the handler expects a string
NUMBER == "<number>"

\* Python truthiness of a str-or-None value: bool(v)
Bool(v) == v \notin {NONE, ""}

\* a generator that draws the same identifier again
Uuid4_Again(n) == ToString(1)

\* str(uuid.uuid4()): the n-th identifier drawn; no two draws collide
Uuid4(n) == ToString(n)


(***************************************************************************)
(* State.                                                                  *)
(*   now               the wall clock read by datetime.now()               *)
(*   objects           the challenge_info dictionaries ever built, by      *)
(*                     their challenge_id (a handler keeps its reference   *)
(*                     to one even after the key is deleted)               *)
(*   active_challenges the keys of the dictionary config.active_challenges;*)
(*                     the value under key k is objects[k]                 *)
(*   sent              notification e-mails handed to the e-mail service,  *)
(*                     counted per kind and challenge                      *)
(*   init              the /authpay/init request answered last: its body,  *)
(*                     the notifications that send_email failed to deliver *)
(*                     and the response                                    *)
(*   verify            the /authpay/verify requests in progress, each on   *)
(*                     its thread: the handler's position and its locals.  *)
(*                     Requests in the same position with the same locals  *)
(*                     are not told apart: the variable is a bag of thread *)
(*                     states                                              *)
(*   answer            the /authpay/verify request answered last: where    *)
(*                     its handler returned, its locals, whether its       *)
(*                     notification was delivered, and the response        *)
(*   sweep             the /authpay/health request: the position of        *)
(*                     cleanup_expired_challenges, its expired_ids still   *)
(*                     to delete and the number it deleted; once it ended, *)
(*                     what cleanup returned, the response, and the number *)
(*                     of challenges issued until then (bookkeeping)       *)
(*   rejected          the challenge ids some /authpay/verify request has  *)
(*                     answered with 'Invalid proof provided' (bookkeeping *)
(*                     for the properties, read by no handler)             *)
(*   requests          the number of HTTP requests received                *)
(*   transactions      the dictionary self.transactions of the one         *)
(*                     DuoAuthService object (auth_duo.py 39)              *)
(*   call              the function or method called last outside the HTTP *)
(*                     handlers, with its arguments and its result         *)
(***************************************************************************)
VARIABLES now, objects, active_challenges, sent, init, verify, answer, sweep,
          rejected, requests, transactions, call

vars == <<now, objects, active_challenges, sent, init, verify, answer, sweep,
          rejected, requests, transactions, call>>

\* the states of the threads serving /authpay/verify
Verifiers == BagToSet(verify)
Ids == {Uuid4(n) : n \in 1..MaxRequests}
Kinds == {"mfa_required", "fraud_alert", "success"}

\* dict.get(key): NONE when the key is absent
Get(data, key) == IF key \in DOMAIN data THEN data[key] ELSE NONE

\* dict.get(key, default)
GetOr(data, key, default) == IF key \in DOMAIN data THEN data[key] ELSE default

(***************************************************************************)
(* validation_service.py                                                   *)
(***************************************************************************)
validate_merchant_api_key(merchant_id, api_key) ==
    Get(MERCHANT_API_KEYS, merchant_id) = api_key

\* a handler that compares the codes as they are written
Upper_AsWritten(s) == s

\* str.upper() on the country and currency codes the model uses
Upper(s) ==
    CASE s = "usd" -> "USD"
      [] s = "eur" -> "EUR"
      [] s = "us" -> "US"
      [] s = "ng" -> "NG"
      [] OTHER -> s

\* the characters of the e-mail addresses the model uses; the empty string
\* has none
Letters(s) ==
    CASE s = "test@example.com" ->
           <<"t", "e", "s", "t", "@", "e", "x", "a", "m", "p", "l", "e", ".", "c", "o", "m">>
      [] s = "user@example.com" ->
           <<"u", "s", "e", "r", "@", "e", "x", "a", "m", "p", "l", "e", ".", "c", "o", "m">>
      [] s = "bob@tempmail.com" ->
           <<"b", "o", "b", "@", "t", "e", "m", "p", "m", "a", "i", "l", ".", "c", "o", "m">>
      [] s = "temp@example.com" ->
           <<"t", "e", "m", "p", "@", "e", "x", "a", "m", "p", "l", "e", ".", "c", "o", "m">>
      [] s = "temp@mail.com" ->
           <<"t", "e", "m", "p", "@", "m", "a", "i", "l", ".", "c", "o", "m">>
      [] s = "Bob@TempMail.com" ->
           <<"B", "o", "b", "@", "T", "e", "m", "p", "M", "a", "i", "l", ".", "c", "o", "m">>
      [] s = "amy@10MinuteMail.com" ->
           <<"a", "m", "y", "@", "1", "0", "M", "i", "n", "u", "t", "e", "M", "a", "i", "l", ".", "c", "o", "m">>
      [] OTHER -> <<>>

\* str.lower(), character by character
LowerLetter(c) ==
    CASE c = "B" -> "b"
      [] c = "M" -> "m"
      [] c = "T" -> "t"
      [] OTHER -> c

Lower(letters) == [n \in DOMAIN letters |-> LowerLetter(letters[n])]

\* fragment in text
Contains(text, fragment) ==
    \E n \in 0..(Len(text) - Len(fragment)) :
        SubSeq(text, n + 1, n + Len(fragment)) = fragment

\* line 58: the list ["temp", "tempmail", "10minutemail"]
DisposableFragments ==
    { <<"t", "e", "m", "p">>,
      <<"t", "e", "m", "p", "m", "a", "i", "l">>,
      <<"1", "0", "m", "i", "n", "u", "t", "e", "m", "a", "i", "l">> }

\* the e-mail addresses of the model
EmailAddresses ==
    {"test@example.com", "user@example.com", "bob@tempmail.com",
     "temp@example.com", "temp@mail.com", "Bob@TempMail.com",
     "amy@10MinuteMail.com", ""}

\* any(domain in text for domain in [...])
AnyFragmentIn(text) ==
    \E domain \in DisposableFragments : Contains(text, domain)

\* line 58: any(domain in email.lower() for domain in [...]), evaluated once
\* for each address
SuspiciousAddresses ==
    {email \in EmailAddresses : AnyFragmentIn(Lower(Letters(email)))}

SuspiciousEmail(email) == email \in SuspiciousAddresses

\* an evaluation that looks at the amount after the other rules
should_require_mfa_AmountLast(amount, currency, geo, device_info, email) ==
    IF Bool(geo) /\ Upper(geo) \in HIGH_RISK_COUNTRIES
      THEN <<TRUE, "high_risk_location">>
    ELSE IF Bool(geo) /\ Upper(geo) # "US"
      THEN <<TRUE, "foreign_transaction">>
    ELSE IF "new_device" \in device_info
      THEN <<TRUE, "new_device">>
    ELSE IF Bool(email) /\ SuspiciousEmail(email)
      THEN <<TRUE, "suspicious_email">>
    ELSE IF amount >= MFA_REQUIRED_AMOUNT
      THEN <<TRUE, "high_amount">>
    ELSE <<FALSE, NONE>>

\* (mfa_required, reason); geo is a string or NONE, device_info the set of
\* the flags that are set in the device dictionary
should_require_mfa(amount, currency, geo, device_info, email) ==
    IF amount >= MFA_REQUIRED_AMOUNT
      THEN <<TRUE, "high_amount">>
    ELSE IF Bool(geo) /\ Upper(geo) \in HIGH_RISK_COUNTRIES
      THEN <<TRUE, "high_risk_location">>
    ELSE IF Bool(geo) /\ Upper(geo) # "US"
      THEN <<TRUE, "foreign_transaction">>
    ELSE IF "new_device" \in device_info
      THEN <<TRUE, "new_device">>
    ELSE IF Bool(email) /\ SuspiciousEmail(email)
      THEN <<TRUE, "suspicious_email">>
    ELSE <<FALSE, NONE>>

(***************************************************************************)
(* Requests.  A JSON body is a function from the keys it carries to their  *)
(* values: strings, an integer amount, a set of device flags.              *)
(***************************************************************************)
ValidInit ==
    [merchant_id |-> "demo_merchant", api_key |-> "sk_test_demo_key_12345",
     currency |-> "USD", email |-> "test@example.com", geo |-> "US"]

\* the bodies posted to /authpay/init
InitRequests ==
    { ValidInit @@ [amount |-> a] : a \in {50, 150} }
      \cup { [ValidInit EXCEPT !.api_key = "wrong"] @@ [amount |-> 50] }

\* a JSON object with the keys whose value is not Absent
Absent == "<absent>"
Json(fields) == [k \in {f \in DOMAIN fields : fields[f] # Absent} |-> fields[k]]

\* the bodies posted to /authpay/init in AdmissionSpec: credentials, amount
\* and currency in every combination; the currency and the amount alone;
\* the attributes the risk rules read in every combination
AdmissionRequests ==
    { Json([merchant_id |-> m, api_key |-> k, currency |-> c,
            email |-> "test@example.com", geo |-> "US"]) @@ a :
        m \in {"demo_merchant", "other_merchant", "", Absent},
        k \in {"sk_test_demo_key_12345", "wrong", "", Absent},
        c \in {"USD", "JPY", Absent},
        a \in {<<>>, [amount |-> 0], [amount |-> 50], [amount |-> 1001]} }
    \cup
    { [ValidInit EXCEPT !.currency = c] @@ [amount |-> a] :
        c \in {"USD", "usd", "eur", "GBP", "JPY", "", NUMBER},
        a \in {-5, 50, 99, 100, 150, 1000, 1001, 5000} }
    \cup
    { Json([merchant_id |-> "demo_merchant", api_key |-> "sk_test_demo_key_12345",
            currency |-> "USD", email |-> e, geo |-> g, cardNumber |-> n]) @@ d
            @@ [amount |-> a] :
        e \in {"test@example.com", "bob@tempmail.com", "", Absent},
        g \in {"US", "ng", "NG", "FR", Absent},
        n \in {"4111", Absent},
        d \in {<<>>, [device |-> {}], [device |-> {"new_device"}]},
        a \in {50, 150} }

\* the challenge_id values posted to /authpay/verify: the identifiers issued
\* so far and one that is never issued
RequestedIds == DOMAIN objects \cup {Uuid4(0)}

\* the bodies posted to /authpay/verify
VerifyRequests ==
    { [challenge_id |-> c] : c \in RequestedIds \cup {""} }
      \cup { [challenge_id |-> c, proof |-> p] : c \in RequestedIds, p \in {"", "proof"} }
      \cup { [proof |-> "proof"] }

Idle == [pc |-> "idle"]

Send(kind, challenge_id) == [sent EXCEPT ![kind][challenge_id] = @ + 1]

\* email_service.py 21-114: send_email returns True when the SMTP server
\* took the message, and False when it raised
SendOutcomes == BOOLEAN

\* a handler that raises when a message was not delivered
AfterSend_Raises(ok, response) ==
    IF ok THEN response ELSE [status |-> 500, error |-> "Internal server error"]

\* lines 115, 119 and 221: the result of the send_..._email call is dropped,
\* the handler goes on to the response it was to give
AfterSend(ok, response) == response

(***************************************************************************)
(* initialize_challenge_service (auth_service.py 17-151)                   *)
(***************************************************************************)
\* lines 44-47: defaults for the absent keys
FillDefaults(data) ==
    [k \in DOMAIN data \cup {"merchant_id", "api_key", "currency", "email"} |->
        CASE k = "merchant_id" -> GetOr(data, k, DEFAULT_MERCHANT_ID)
          [] k = "api_key" -> GetOr(data, k, DEFAULT_API_KEY)
          [] k = "currency" -> GetOr(data, k, DEFAULT_CURRENCY)
          [] k = "email" -> GetOr(data, k, DEFAULT_EMAIL)
          [] OTHER -> data[k]]

\* "not data.get(field)": the key is absent, or its value is "" or 0
FieldMissing(data, field) ==
    \/ field \notin DOMAIN data
    \/ IF field = "amount" THEN data[field] = 0 ELSE data[field] = ""

RequiredFields == <<"merchant_id", "api_key", "amount", "currency", "email">>

\* a validation that looks at the credentials first
ValidateInit_CredentialsFirst(data) ==
    LET missing == SelectSeq(RequiredFields, LAMBDA f : FieldMissing(data, f)) IN
    IF ~validate_merchant_api_key(Get(data, "merchant_id"), Get(data, "api_key"))
      THEN [status |-> 401, error |-> "Invalid merchant credentials"]
    ELSE IF missing # <<>>
      THEN [status |-> 400, error |-> "Missing required fields", missing_fields |-> missing]
    ELSE IF data.currency = NUMBER
      THEN [status |-> 400, error |-> "Invalid currency format"]
    ELSE IF Upper(data.currency) \notin SUPPORTED_CURRENCIES
      THEN [status |-> 400, error |-> "Unsupported currency",
            supported_currencies |-> SUPPORTED_CURRENCIES]
    ELSE IF data.amount > HIGH_AMOUNT
      THEN [status |-> 400, error |-> "Amount exceeds the allowed threshold",
            threshold |-> HIGH_AMOUNT]
    ELSE [status |-> 0]

\* a validation that refuses the ceiling amount too
ValidateInit_CeilingRefused(data) ==
    LET missing == SelectSeq(RequiredFields, LAMBDA f : FieldMissing(data, f)) IN
    IF missing # <<>>
      THEN [status |-> 400, error |-> "Missing required fields", missing_fields |-> missing]
    ELSE IF ~validate_merchant_api_key(data.merchant_id, data.api_key)
      THEN [status |-> 401, error |-> "Invalid merchant credentials"]
    ELSE IF data.currency = NUMBER
      THEN [status |-> 400, error |-> "Invalid currency format"]
    ELSE IF Upper(data.currency) \notin SUPPORTED_CURRENCIES
      THEN [status |-> 400, error |-> "Unsupported currency",
            supported_currencies |-> SUPPORTED_CURRENCIES]
    ELSE IF data.amount >= HIGH_AMOUNT
      THEN [status |-> 400, error |-> "Amount exceeds the allowed threshold",
            threshold |-> HIGH_AMOUNT]
    ELSE [status |-> 0]

\* lines 49-80 on the body with its defaults filled: the error response, or
\* [status |-> 0] when the request passes
ValidateInit(data) ==
    LET missing == SelectSeq(RequiredFields, LAMBDA f : FieldMissing(data, f)) IN
    IF missing # <<>>
      THEN [status |-> 400, error |-> "Missing required fields", missing_fields |-> missing]
    ELSE IF ~validate_merchant_api_key(data.merchant_id, data.api_key)
      THEN [status |-> 401, error |-> "Invalid merchant credentials"]
    ELSE IF data.currency = NUMBER
      THEN [status |-> 400, error |-> "Invalid currency format"]
    ELSE IF Upper(data.currency) \notin SUPPORTED_CURRENCIES
      THEN [status |-> 400, error |-> "Unsupported currency",
            supported_currencies |-> SUPPORTED_CURRENCIES]
    ELSE IF data.amount > HIGH_AMOUNT
      THEN [status |-> 400, error |-> "Amount exceeds the allowed threshold",
            threshold |-> HIGH_AMOUNT]
    ELSE [status |-> 0]

\* lines 82-108: the record of a request that passed validation
ChallengeInfo(data, challenge_id, created, expires_base) ==
    LET mfa == should_require_mfa(data.amount, Upper(data.currency),
                   Get(data, "geo"), GetOr(data, "device", {}), data.email)
    IN [challenge_id |-> challenge_id,
        merchant_id |-> data.merchant_id,
        amount |-> data.amount,
        currency |-> Upper(data.currency),
        geo |-> Get(data, "geo"),
        email |-> data.email,
        device |-> GetOr(data, "device", {}),
        mfa_required |-> mfa[1],
        reason |-> mfa[2],
        created_at |-> created,
        expires_at |-> expires_base + CHALLENGE_EXPIRY_MINUTES,
        verified |-> FALSE,
        verified_at |-> Unset]

\* a handler that sends the fraud alert with every verification request
InitNotifications_AlwaysAlert(info) ==
    [k \in Kinds |->
        IF k \in {"mfa_required", "fraud_alert"} /\ info.mfa_required
          THEN [sent[k] EXCEPT ![info.challenge_id] = @ + 1]
          ELSE sent[k]]

\* lines 113-119: the notifications of a new challenge
InitNotifications(info) ==
    [k \in Kinds |->
        IF \/ k = "mfa_required" /\ info.mfa_required
           \/ k = "fraud_alert" /\ info.mfa_required
                /\ info.reason \in {"high_risk_location", "suspicious_email", "new_device"}
          THEN [sent[k] EXCEPT ![info.challenge_id] = @ + 1]
          ELSE sent[k]]

\* what the card lookup and the Duo preauth may do: the card's user is found
\* and Duo lists the methods, the card is unknown, the database call raises,
\* the Duo client raises ValueError
CardOutcomes == {"methods", "no_user", "db_error", "duo_error"}

\* lines 122-151: the response for a stored challenge
InitResponse(data, info, outcome) ==
    LET base == [status |-> 200, challenge_id |-> info.challenge_id,
                 mfa_required |-> info.mfa_required,
                 expires_in_seconds |-> CHALLENGE_EXPIRY_MINUTES * 60]
    IN IF ~info.mfa_required THEN base
       ELSE IF ~Bool(Get(data, "cardNumber"))
         THEN base @@ [reason |-> "No card information provided"]
       ELSE CASE outcome = "methods" ->
                   base @@ [reason |-> info.reason, auth_method |-> "methods"]
              [] outcome = "no_user" ->
                   base @@ [reason |-> "Card not attached to a user",
                            auth_method |-> NONE]
              [] outcome = "duo_error" ->
                   [status |-> 400, error |-> "Invalid amount format: <detail>"]
              [] OTHER ->
                   [status |-> 500, error |-> "Internal server error"]

\* the outcomes that lines 129-139 depend on for this request
OutcomesFor(data, info) ==
    IF info.mfa_required /\ Bool(Get(data, "cardNumber"))
      THEN CardOutcomes ELSE {"methods"}

\* the kinds of notification lines 113-119 send for this challenge
Dispatched(info) ==
    {k \in Kinds : InitNotifications(info)[k][info.challenge_id]
                      # sent[k][info.challenge_id]}

\* One /authpay/init request with a body of bodies, start to end.  Nothing
\* of a challenge is visible to another request before line 110 stores the
\* finished record, so the handler is one step here.  Line 105 reads the
\* clock for created_at and line 106 reads it again for expires_at: the
\* second reading is one of readings, and the clock is there when the
\* handler returns.
InitializeFrom(bodies, readings) ==
    /\ requests' = requests + 1
    /\ \E body \in bodies :
         LET data == FillDefaults(body)
             error == ValidateInit(data)
             challenge_id == Uuid4(Cardinality(DOMAIN objects) + 1)
         IN IF error.status # 0
              THEN /\ init' = [request |-> body, response |-> error]
                   /\ UNCHANGED <<now, objects, active_challenges, sent>>
              ELSE \E later \in readings :
                   LET info == ChallengeInfo(data, challenge_id, now, later) IN
                   \E outcome \in OutcomesFor(data, info) :
                   \E undelivered \in SUBSET Dispatched(info) :
                   /\ now' = later
                   /\ objects' = objects @@ (challenge_id :> info)
                   /\ active_challenges' = active_challenges \cup {challenge_id}
                   /\ sent' = InitNotifications(info)
                   /\ init' = [request |-> body,
                               undelivered |-> undelivered,
                               response |->
                                   AfterSend(undelivered = {},
                                             InitResponse(data, info, outcome))]
    /\ UNCHANGED <<verify, answer, sweep, rejected,
                   transactions, call>>

\* /authpay/init beside the other endpoints; its two readings of the clock
\* fall in the same minute
Initialize ==
    /\ requests < MaxRequests
    /\ InitializeFrom(InitRequests, {now})

\* /authpay/init alone, over the bodies of AdmissionRequests
Admit ==
    /\ requests < MaxAdmissions
    /\ InitializeFrom(AdmissionRequests, {now})

(***************************************************************************)
(* verify_challenge_service (auth_service.py 153-237)                      *)
(***************************************************************************)
\* a check that takes an empty challenge_id for an identifier
MissingChallengeId_AbsentOnly(data) == "challenge_id" \notin DOMAIN data

\* line 175: "not data.get('challenge_id')"
MissingChallengeId(data) == ~Bool(Get(data, "challenge_id"))

\* a lookup that finds every id
NotStored_Never(challenge_id) == FALSE

\* line 181: "challenge_id not in active_challenges"
NotStored(challenge_id) == challenge_id \notin active_challenges

\* an expiry test that takes the instant of expiry for expired
HasExpired_AtExpiry(challenge, time) == challenge.expires_at <= time

\* line 190: challenge['expires_at'] < datetime.now()
HasExpired(challenge, time) == challenge.expires_at < time

\* a handler without the check of line 198
AlreadyVerified_Never(challenge) == FALSE

\* line 198: challenge['verified']
AlreadyVerified(challenge) == challenge.verified

\* a verification that asks every challenge for a proof
VerificationResult_ProofOnly(challenge, proof) == Bool(proof)

\* a verification that accepts every request
VerificationResult_Always(challenge, proof) == TRUE

\* lines 206-213: the mock verification
VerificationResult(challenge, proof) ==
    IF ~challenge.mfa_required THEN TRUE ELSE Bool(proof)

MissingIdResponse == [status |-> 400, error |-> "Missing challenge_id"]
\* an answer that tells a removed challenge from an unknown one
NotFoundResponse_Gone ==
    [status |-> 410, allow |-> FALSE, reason |-> "Challenge expired"]
NotFoundResponse ==
    [status |-> 404, allow |-> FALSE, reason |-> "Invalid or expired challenge_id"]
ExpiredResponse == [status |-> 410, allow |-> FALSE, reason |-> "Challenge expired"]
AlreadyVerifiedResponse ==
    [status |-> 409, allow |-> FALSE, reason |-> "Challenge already verified"]
InvalidProofResponse ==
    [status |-> 400, allow |-> FALSE, reason |-> "Invalid proof provided"]
AllowResponse(challenge_id, verified_at) ==
    [status |-> 200, allow |-> TRUE, challenge_id |-> challenge_id,
     verified_at |-> verified_at]
\* lines 235-237: any exception raised in the handler
InternalErrorResponse == [status |-> 500, error |-> "Internal server error"]

\* a thread in state t moves to state u
Becomes(t, u) == verify' = (verify (-) SetToBag({t})) (+) SetToBag({u})

\* what is kept of an answered request: the position the handler returned
\* from, the challenge_id and, once read, the proof of its body, and the
\* response
Answered(t, response) ==
    [k \in (DOMAIN t \ {"verification_result"}) \cup {"response"} |->
        IF k = "response" THEN response ELSE t[k]]

\* the handler returns response and its thread ends
Answer(t, response) ==
    /\ verify' = verify (-) SetToBag({t})
    /\ answer' = Answered(t, response)

Goto(t, pc) == Becomes(t, [t EXCEPT !.pc = pc]) /\ UNCHANGED answer

\* lines 172-185: the body is read, challenge_id is checked and looked up.
\* Nothing reads the body's proof before line 206, and the model draws it
\* there.
VerifyReceive ==
    /\ requests < MaxRequests
    /\ requests' = requests + 1
    /\ \E data \in VerifyRequests :
         LET id == Get(data, "challenge_id")
             thread == [pc |-> "lookup", challenge_id |-> id,
                        \* bookkeeping: the request began after an 'Invalid
                        \* proof provided' answer for its id
                        late |-> id \in rejected]
         IN IF MissingChallengeId(data)
              THEN /\ answer' = Answered(thread, MissingIdResponse)
                   /\ UNCHANGED verify
            ELSE IF NotStored(id)
              THEN /\ answer' = Answered(thread, NotFoundResponse)
                   /\ UNCHANGED verify
            ELSE /\ verify' = verify (+) SetToBag({[thread EXCEPT !.pc = "fetch"]})
                 /\ UNCHANGED answer
    /\ UNCHANGED <<now, objects, active_challenges, sent, init, sweep, rejected,
                   transactions, call>>

\* line 187: challenge = active_challenges[challenge_id]; KeyError when the
\* key was deleted since the lookup
VerifyFetch(t) ==
    /\ t.pc = "fetch"
    /\ IF t.challenge_id \notin active_challenges
         THEN Answer(t, InternalErrorResponse)
         ELSE Goto(t, "expiry")
    /\ UNCHANGED <<now, objects, active_challenges, sent, init, sweep, rejected, requests,
                   transactions, call>>

\* line 190: the expiry check
VerifyExpiry(t) ==
    /\ t.pc = "expiry"
    /\ IF HasExpired(objects[t.challenge_id], now)
         THEN Goto(t, "delete")
         ELSE Goto(t, "verified")
    /\ UNCHANGED <<now, objects, active_challenges, sent, init, sweep, rejected, requests,
                   transactions, call>>

\* an expiry branch that empties the store
VerifyDelete_Clears(t) ==
    /\ t.pc = "delete"
    /\ active_challenges' = {}
    /\ Answer(t, ExpiredResponse)
    /\ UNCHANGED <<now, objects, sent, init, sweep, rejected, requests,
                   transactions, call>>

\* lines 191-195: del active_challenges[challenge_id]; KeyError when the key
\* was deleted since the fetch
VerifyDelete(t) ==
    /\ t.pc = "delete"
    /\ IF t.challenge_id \notin active_challenges
         THEN Answer(t, InternalErrorResponse) /\ UNCHANGED active_challenges
         ELSE /\ active_challenges' = active_challenges \ {t.challenge_id}
              /\ Answer(t, ExpiredResponse)
    /\ UNCHANGED <<now, objects, sent, init, sweep, rejected, requests,
                   transactions, call>>

\* lines 198-213: the already-verified check, then the verification result
\* for the proof of the body
VerifyCheck(t) ==
    /\ t.pc = "verified"
    /\ LET challenge == objects[t.challenge_id] IN
         IF AlreadyVerified(challenge)
           THEN Answer(t, AlreadyVerifiedResponse)
           ELSE \E data \in VerifyRequests :
                  /\ Get(data, "challenge_id") = t.challenge_id
                  /\ Becomes(t, [t EXCEPT !.pc = "mark"] @@
                       [proof |-> Get(data, "proof"),
                        verification_result |->
                            VerificationResult(challenge, Get(data, "proof"))])
                  /\ UNCHANGED answer
    /\ UNCHANGED <<now, objects, active_challenges, sent, init, sweep, rejected, requests,
                   transactions, call>>

\* line 216: challenge['verified'] = True
VerifyMark(t) ==
    /\ t.pc = "mark"
    /\ objects' = [objects EXCEPT ![t.challenge_id].verified = TRUE]
    /\ Goto(t, "stamp")
    /\ UNCHANGED <<now, active_challenges, sent, init, sweep, rejected, requests,
                   transactions, call>>

\* lines 217, 228-233: challenge['verified_at'] = datetime.now(); a failed
\* verification is answered
VerifyStamp(t) ==
    /\ t.pc = "stamp"
    /\ objects' = [objects EXCEPT ![t.challenge_id].verified_at = now]
    /\ IF t.verification_result
         THEN Goto(t, "notify") /\ UNCHANGED rejected
         ELSE /\ Answer(t, InvalidProofResponse)
              /\ rejected' = rejected \cup {t.challenge_id}
    /\ UNCHANGED <<now, active_challenges, sent, init, sweep, requests,
                   transactions, call>>

\* lines 219-227: the success e-mail, then the answer
VerifyNotify(t) ==
    /\ t.pc = "notify"
    /\ sent' = Send("success", t.challenge_id)
    /\ \E ok \in SendOutcomes :
         /\ verify' = verify (-) SetToBag({t})
         /\ answer' = Answered(t, AfterSend(ok,
                           AllowResponse(t.challenge_id,
                                         objects[t.challenge_id].verified_at)))
                         @@ [delivered |-> ok]
    /\ UNCHANGED <<now, objects, active_challenges, init, sweep, rejected, requests,
                   transactions, call>>

(***************************************************************************)
(* health_check_service (health_service.py 6-25) and                       *)
(* cleanup_expired_challenges (cleanup_service.py 4-24)                    *)
(***************************************************************************)
\* lines 16-19: the keys of the expired records, in dictionary order from
\* the n-th key on
\* a scan that selects nothing
ExpiredFrom_None(n, current_time) == <<>>

RECURSIVE ExpiredFrom(_, _)
ExpiredFrom(n, current_time) ==
    IF n > Cardinality(DOMAIN objects) THEN <<>>
    ELSE LET rest == ExpiredFrom(n + 1, current_time) IN
         IF Uuid4(n) \in active_challenges /\ HasExpired(objects[Uuid4(n)], current_time)
           THEN <<Uuid4(n)>> \o rest
           ELSE rest

\* lines 15-19: current_time and the scan for expired_ids
CleanupScan ==
    /\ sweep.pc \in {"idle", "done"}
    /\ sweep' = [pc |-> "delete", expired_ids |-> ExpiredFrom(1, now),
                 removed |-> 0]
    /\ UNCHANGED <<now, objects, active_challenges, sent, init, verify, answer, rejected,
                   transactions, call>>

\* GET /authpay/health is received and the sweep scans the store
SweepScan ==
    /\ requests < MaxRequests
    /\ requests' = requests + 1
    /\ CleanupScan

\* lines 20-21: del active_challenges[challenge_id] for the next id; a
\* KeyError is caught nowhere and fails the health check
SweepDelete ==
    /\ sweep.pc = "delete"
    /\ sweep.expired_ids # <<>>
    /\ LET challenge_id == Head(sweep.expired_ids) IN
         IF challenge_id \notin active_challenges
           THEN /\ sweep' = [pc |-> "done",
                            issued |-> Cardinality(DOMAIN objects),
                            response |-> [status |-> 500]]
                /\ UNCHANGED active_challenges
           ELSE /\ active_challenges' = active_challenges \ {challenge_id}
                /\ sweep' = [sweep EXCEPT !.expired_ids = Tail(@),
                                          !.removed = @ + 1]
    /\ UNCHANGED <<now, objects, sent, init, verify, answer, rejected, requests,
                   transactions, call>>

\* cleanup_service.py 23-24 and health_service.py 20-25: the loop is over,
\* cleanup_expired_challenges logs the count and returns None (it has no
\* return statement), and the health check answers with the count of the
\* records left
HealthRespond ==
    /\ sweep.pc = "delete"
    /\ sweep.expired_ids = <<>>
    /\ sweep' = [pc |-> "done",
                 issued |-> Cardinality(DOMAIN objects),
                 returned |-> NONE,
                 response |-> [status |-> 200, body_status |-> "ok",
                               active_challenges |-> Cardinality(active_challenges)]]
    /\ UNCHANGED <<now, objects, active_challenges, sent, init, verify, answer, rejected, requests,
                   transactions, call>>

(***************************************************************************)
(* The wall clock.  The model samples it at three instants: start-up, the  *)
(* expiry time of a challenge issued at start-up (expires_at = now, not    *)
(* yet expired) and one minute past it.                                    *)
(***************************************************************************)
Instants == <<0, CHALLENGE_EXPIRY_MINUTES, CHALLENGE_EXPIRY_MINUTES + 1>>

Tick ==
    /\ \E n \in 1..(Len(Instants) - 1) :
         /\ now = Instants[n]
         /\ now' = Instants[n + 1]
    /\ UNCHANGED <<objects, active_challenges, sent, init, verify, answer, sweep, rejected, requests,
                   transactions, call>>

(***************************************************************************)
(* The service after start-up: no challenge, no request in progress.       *)
(***************************************************************************)
Init ==
    /\ now = Instants[1]
    /\ objects = <<>>
    /\ active_challenges = {}
    /\ sent = [k \in Kinds |-> [id \in Ids |-> 0]]
    /\ init = Idle
    /\ verify = EmptyBag
    /\ answer = Idle
    /\ sweep = Idle
    /\ rejected = {}
    /\ requests = 0
    /\ transactions = <<>>
    /\ call = Idle

Next ==
    \/ Initialize
    \/ VerifyReceive
    \/ \E t \in Verifiers : VerifyFetch(t)
    \/ \E t \in Verifiers : VerifyExpiry(t)
    \/ \E t \in Verifiers : VerifyDelete(t)
    \/ \E t \in Verifiers : VerifyCheck(t)
    \/ \E t \in Verifiers : VerifyMark(t)
    \/ \E t \in Verifiers : VerifyStamp(t)
    \/ \E t \in Verifiers : VerifyNotify(t)
    \/ SweepScan
    \/ SweepDelete
    \/ HealthRespond
    \/ Tick

Spec == Init /\ [][Next]_vars

\* the service receiving /authpay/init requests only
AdmissionSpec == Init /\ [][Admit]_vars

\* the service under fewer requests, for the properties of single steps
Racing == requests < MaxRaces

RaceNext ==
    \/ Racing /\ Initialize
    \/ Racing /\ VerifyReceive
    \/ \E t \in Verifiers : VerifyFetch(t)
    \/ \E t \in Verifiers : VerifyExpiry(t)
    \/ \E t \in Verifiers : VerifyDelete(t)
    \/ \E t \in Verifiers : VerifyCheck(t)
    \/ \E t \in Verifiers : VerifyMark(t)
    \/ \E t \in Verifiers : VerifyStamp(t)
    \/ \E t \in Verifiers : VerifyNotify(t)
    \/ Racing /\ SweepScan
    \/ SweepDelete
    \/ HealthRespond
    \/ Tick

RaceSpec == Init /\ [][RaceNext]_vars

\* the service with one request at a time: a request is received when no
\* handler is in progress
Serial ==
    /\ requests < MaxSerial
    /\ verify = EmptyBag
    /\ sweep.pc # "delete"

SerialNext ==
    \/ Serial /\ Initialize
    \/ Serial /\ VerifyReceive
    \/ \E t \in Verifiers : VerifyFetch(t)
    \/ \E t \in Verifiers : VerifyExpiry(t)
    \/ \E t \in Verifiers : VerifyDelete(t)
    \/ \E t \in Verifiers : VerifyCheck(t)
    \/ \E t \in Verifiers : VerifyMark(t)
    \/ \E t \in Verifiers : VerifyStamp(t)
    \/ \E t \in Verifiers : VerifyNotify(t)
    \/ Serial /\ SweepScan
    \/ SweepDelete
    \/ HealthRespond
    \/ Tick

SerialSpec == Init /\ [][SerialNext]_vars

\* the service under health checks that never cease: the /authpay/init and
\* /authpay/verify requests are counted, the health checks are not
Live == requests < MaxLive

\* GET /authpay/health, any number of times
Monitor == CleanupScan /\ UNCHANGED requests

LiveNext ==
    \/ Live /\ Initialize
    \/ Live /\ VerifyReceive
    \/ \E t \in Verifiers : VerifyFetch(t)
    \/ \E t \in Verifiers : VerifyExpiry(t)
    \/ \E t \in Verifiers : VerifyDelete(t)
    \/ \E t \in Verifiers : VerifyCheck(t)
    \/ \E t \in Verifiers : VerifyMark(t)
    \/ \E t \in Verifiers : VerifyStamp(t)
    \/ \E t \in Verifiers : VerifyNotify(t)
    \/ Monitor
    \/ SweepDelete
    \/ HealthRespond
    \/ Tick

\* the monitor keeps calling /authpay/health, the thread of a health check
\* keeps running until it has answered, and the clock keeps advancing
LiveSpec ==
    /\ Init /\ [][LiveNext]_vars
    /\ WF_vars(Monitor)
    /\ WF_vars(SweepDelete)
    /\ WF_vars(HealthRespond)
    /\ WF_vars(Tick)

(***************************************************************************)
(* The functions of validation_service.py, called on their own.            *)
(***************************************************************************)
\* the calls of validate_merchant_api_key: a known and an unknown merchant,
\* the stored key, another key, the empty string and None
MerchantCalls ==
    { [pc |-> "called", function |-> "validate_merchant_api_key",
       merchant_id |-> merchant_id, api_key |-> api_key] :
        merchant_id \in {"demo_merchant", "invalid_merchant", "", NONE},
        api_key \in {"sk_test_demo_key_12345", "invalid_key", "", NONE} }

\* the calls of should_require_mfa
MfaCalls ==
    { [pc |-> "called", function |-> "should_require_mfa",
       amount |-> amount, currency |-> "USD", geo |-> geo,
       device_info |-> device_info, email |-> email] :
        amount \in {50, MFA_REQUIRED_AMOUNT},
        geo \in {"US", "us", "NG", "FR", NONE},
        device_info \in {{}, {"new_device"}},
        email \in EmailAddresses \cup {NONE} }

\* one call is about to be made
CallInit ==
    /\ now = Instants[1]
    /\ objects = <<>>
    /\ active_challenges = {}
    /\ sent = [k \in Kinds |-> [id \in Ids |-> 0]]
    /\ init = Idle
    /\ verify = EmptyBag
    /\ answer = Idle
    /\ sweep = Idle
    /\ rejected = {}
    /\ requests = 0
    /\ transactions = <<>>
    /\ call \in MerchantCalls \cup MfaCalls

Returns(result) ==
    /\ call.pc = "called"
    /\ call' = [call EXCEPT !.pc = "returned"] @@ [result |-> result]
    /\ UNCHANGED <<now, objects, active_challenges, sent, init, verify, answer,
                   sweep, rejected, requests, transactions>>

CallValidateMerchantApiKey ==
    /\ call.function = "validate_merchant_api_key"
    /\ Returns(validate_merchant_api_key(call.merchant_id, call.api_key))

CallShouldRequireMfa ==
    /\ call.function = "should_require_mfa"
    /\ Returns(should_require_mfa(call.amount, call.currency, call.geo,
                                  call.device_info, call.email))

CallNext == CallValidateMerchantApiKey \/ CallShouldRequireMfa

CallSpec == CallInit /\ [][CallNext]_vars

(***************************************************************************)
(* DuoAuthService (auth_duo.py 20-249): one object, its methods called in  *)
(* any order.                                                              *)
(***************************************************************************)
\* lines 245-249: whether Duo's token endpoint answered 200; a request that
\* raised counts as False
TokenOutcomes == BOOLEAN

\* the state parameters a callback can carry: those issued, one that was
\* never issued, the empty string and None
CallbackStates ==
    {transactions[txid].state : txid \in DOMAIN transactions}
        \cup {"unknown_state", "", NONE}

\* lines 197-202: the transaction stored under state, or None
find_transaction_by_state(state) ==
    LET found == {txid \in DOMAIN transactions : transactions[txid].state = state}
    IN IF found = {} THEN NONE ELSE CHOOSE txid \in found : TRUE

\* lines 41-114: three fresh identifiers, the new transaction, the result
create_auth_url ==
    /\ Cardinality(DOMAIN transactions) < MaxTransactions
    /\ \E username \in {"sushmit"} :
       \E transaction_data \in {<<>>, [amount |-> "150.00"]} :
         LET drawn == 3 * Cardinality(DOMAIN transactions)
             txid == Uuid4(drawn + 1)
             state == Uuid4(drawn + 2)
             nonce == Uuid4(drawn + 3)
         IN /\ transactions' = transactions @@
                   (txid :> [state |-> state, nonce |-> nonce,
                             username |-> username,
                             transaction_data |-> transaction_data,
                             status |-> "pending", created_at |-> now])
            /\ call' = [function |-> "create_auth_url", username |-> username,
                        result |-> [transaction_id |-> txid,
                                    status |-> "pending"]]
    /\ UNCHANGED <<now, objects, active_challenges, sent, init, verify, answer,
                   sweep, rejected, requests>>

\* the dictionary handle_callback returns
CallbackResult(status, transaction_id, message) ==
    [status |-> status, transaction_id |-> transaction_id, message |-> message]

\* lines 116-172
handle_callback ==
    \E code \in {"code", "", NONE} :
    \E state \in CallbackStates :
    \E error \in {NONE, "access_denied"} :
    \E token_success \in TokenOutcomes :
      LET txid == find_transaction_by_state(state)
          Result(result) ==
              call' = [function |-> "handle_callback", code |-> code,
                       state |-> state, error |-> error, result |-> result]
      IN /\ IF Bool(error)
               THEN /\ Result(CallbackResult("error", NONE,
                                   "Duo authentication error"))
                    /\ UNCHANGED transactions
             ELSE IF ~Bool(code) \/ ~Bool(state)
               THEN /\ Result(CallbackResult("error", NONE,
                                   "Missing authorization code or state"))
                    /\ UNCHANGED transactions
             ELSE IF txid = NONE
               THEN /\ Result(CallbackResult("error", NONE,
                                   "Invalid or expired state parameter"))
                    /\ UNCHANGED transactions
             ELSE IF token_success
               THEN /\ transactions' =
                          [transactions EXCEPT ![txid] =
                              [completed_at |-> now]
                                  @@ [@ EXCEPT !.status = "approved"]]
                    /\ Result(CallbackResult("approved", txid,
                                   "MFA authentication successful"))
             ELSE /\ transactions' =
                        [transactions EXCEPT ![txid].status = "denied"]
                  /\ Result(CallbackResult("denied", txid,
                                 "MFA authentication failed"))
         /\ UNCHANGED <<now, objects, active_challenges, sent, init, verify,
                        answer, sweep, rejected, requests>>

\* lines 174-195; isoformat() gives the time as a string
get_transaction_status ==
    /\ \E txid \in DOMAIN transactions \cup {"unknown_transaction"} :
         call' = [function |-> "get_transaction_status", txid |-> txid,
                  found |-> txid \in DOMAIN transactions,
                  result |->
                    IF txid \notin DOMAIN transactions THEN <<>>
                    ELSE LET transaction == transactions[txid] IN
                         [transaction_id |-> txid,
                          status |-> transaction.status,
                          username |-> transaction.username,
                          transaction_data |-> transaction.transaction_data,
                          created_at |-> ToString(transaction.created_at),
                          completed_at |->
                              IF "completed_at" \in DOMAIN transaction
                                THEN ToString(transaction.completed_at)
                                ELSE NONE]]
    /\ UNCHANGED <<now, objects, active_challenges, sent, init, verify, answer,
                   sweep, rejected, requests, transactions>>

DuoNext ==
    \/ create_auth_url
    \/ handle_callback
    \/ get_transaction_status
    \/ Tick

DuoSpec == Init /\ [][DuoNext]_vars

\* /authpay/init while the clock moves between its two readings
LaterInstants == {Instants[n] : n \in {m \in DOMAIN Instants : Instants[m] >= now}}

Issue ==
    /\ requests < MaxIssues
    /\ InitializeFrom(InitRequests, LaterInstants)

IssueNext == Issue \/ Tick

IssueSpec == Init /\ [][IssueNext]_vars

(***************************************************************************)
(* Properties of /authpay/verify.                                          *)
(***************************************************************************)
\* the request answered last was answered with this status
Answers(status) == "response" \in DOMAIN answer /\ answer.response.status = status

\* the request answered last had read the proof of its body (line 206)
ReadProof == "proof" \in DOMAIN answer

\* the threads that passed the already-verified check of line 198
Passed == {t \in Verifiers : t.pc \in {"mark", "stamp", "notify"}}

\* C1: of the Verify calls that race for one unexpired, unverified challenge
\* with a non-empty proof each, exactly one is answered allow:true and the
\* transaction-success notification is dispatched exactly once.  A challenge
\* with mfa_required is answered allow:true only for a non-empty proof, so
\* the property counts the success notifications of those challenges.
C1_ExactlyOneSuccess ==
    \A id \in DOMAIN objects :
        objects[id].mfa_required => sent["success"][id] <= 1

\* C2: no Verify call answers allow:true with a verified_at later than the
\* expires_at of its challenge.
C2_NoAllowPastExpiry ==
    Answers(200) =>
        answer.response.verified_at <= objects[answer.challenge_id].expires_at

\* C3: once a stored challenge has verified = true and its verified_at
\* written, no step of any request changes a field of the record.
C3_VerifiedIsImmutable ==
    [][\A id \in active_challenges :
          objects[id].verified /\ objects[id].verified_at # Unset
              => objects'[id] = objects[id]]_vars

\* C4: a Verify call that passes the checks of an mfa_required challenge with
\* an absent or empty proof is answered 400 'Invalid proof provided' and has
\* marked the challenge verified; a Verify call for that id that begins after
\* this answer never passes the already-verified check: it is answered 409
\* when it reaches the check, and is never answered allow:true.
C4_FailedProofConsumes ==
    /\ \A t \in Passed :
         objects[t.challenge_id].mfa_required /\ ~Bool(t.proof)
             => ~t.verification_result /\ t.pc # "notify"
    /\ ReadProof /\ objects[answer.challenge_id].mfa_required /\ ~Bool(answer.proof)
         => answer.response = InvalidProofResponse
    /\ \A id \in rejected : objects[id].verified
    /\ \A t \in Verifiers : t.late => t \notin Passed
    /\ "late" \in DOMAIN answer /\ answer.late
         => /\ answer.response \in {NotFoundResponse, ExpiredResponse,
                                    AlreadyVerifiedResponse, InternalErrorResponse}
            /\ answer.pc = "verified" => answer.response = AlreadyVerifiedResponse

\* a request that began after the 'Invalid proof provided' answer is answered
\* 409 while the challenge is stored and not expired
C4_Retried ==
    /\ "late" \in DOMAIN answer /\ answer.late
    /\ answer.response = AlreadyVerifiedResponse
    /\ answer.challenge_id \in active_challenges
    /\ ~HasExpired(objects[answer.challenge_id], now)
    /\ objects[answer.challenge_id].mfa_required

C6_MfaAllowsIffProof ==
    /\ \A t \in Passed :
         objects[t.challenge_id].mfa_required
             => (t.verification_result <=> Bool(t.proof))
    /\ ReadProof /\ objects[answer.challenge_id].mfa_required
         => (Answers(200) <=> Bool(answer.proof))

\* an MFA challenge is approved for a request with a non-empty proof
C6_ApprovedWithProof ==
    /\ ReadProof /\ answer.proof = "proof"
    /\ objects[answer.challenge_id].mfa_required
    /\ Answers(200) /\ answer.response.allow

\* C7: a Verify call that fetched a stored challenge and found it expired
\* (line 190) is answered 410 allow:false, and the record is then gone.
C7_ExpiredAnswers410 ==
    answer.pc = "delete"
        => /\ answer.response.status = 410
           /\ ~answer.response.allow
           /\ answer.challenge_id \notin active_challenges

\* C8: a Verify call that found a verified challenge expired is answered
\* Expired (410), the expiry check coming before the already-verified check.
C8_ExpiryBeforeVerified ==
    /\ answer.pc = "delete"
    /\ objects[answer.challenge_id].verified
    /\ objects[answer.challenge_id].verified_at # Unset
    => answer.response = ExpiredResponse

\* C9: a Verify request whose challenge_id is absent or empty is answered 400
\* 'Missing challenge_id' at the first check, whatever the store holds; a
\* request answered at the lookup of line 181 has an id that is not in the
\* store and gets 404 allow:false 'Invalid or expired challenge_id'.
C9_MissingThenNotFound ==
    answer.pc = "lookup"
        => IF answer.challenge_id \in {NONE, ""}
             THEN answer.response = [status |-> 400, error |-> "Missing challenge_id"]
             ELSE /\ answer.challenge_id \notin active_challenges
                  /\ answer.response.status = 404
                  /\ ~answer.response.allow
                  /\ answer.response.reason = "Invalid or expired challenge_id"

\* an empty challenge_id is refused while the store holds challenges
C9_EmptyIdRefused ==
    /\ answer.pc = "lookup" /\ answer.challenge_id = ""
    /\ answer.response = MissingIdResponse
    /\ active_challenges # {}

Initialized == "request" \in DOMAIN init

\* the body of the request answered last, and what the handler reads in it
\* after lines 44-47
Request == init.request
Data == FillDefaults(init.request)

\* the request answered last lacks a value for one of the required fields
LacksField ==
    \/ "amount" \notin DOMAIN Data
    \/ Data.amount = 0
    \/ \E f \in {"merchant_id", "api_key", "currency", "email"} : Data[f] = ""

\* its credentials are not those of a merchant
BadCredentials ==
    \/ Data.merchant_id \notin DOMAIN MERCHANT_API_KEYS
    \/ MERCHANT_API_KEYS[Data.merchant_id] # Data.api_key

\* the responses of the four validations
ValidationErrors ==
    {"Missing required fields", "Invalid merchant credentials",
     "Unsupported currency", "Invalid currency format",
     "Amount exceeds the allowed threshold"}

\* the request answered last was refused by a validation
Refused == "error" \in DOMAIN init.response /\ init.response.error \in ValidationErrors

\* its currency is not a supported code, in any case of the letters
BadCurrency == Data.currency \notin {"USD", "usd", "EUR", "eur", "GBP", "gbp"}

\* C11: Initialize reports the first failure only, in the order missing
\* fields (400), merchant credentials (401), currency (400), amount ceiling
\* (400).
C11_FirstFailureWins ==
    Initialized =>
        LET r == init.response IN
        IF LacksField
          THEN r.status = 400 /\ r.error = "Missing required fields"
        ELSE IF BadCredentials
          THEN r.status = 401 /\ r.error = "Invalid merchant credentials"
        ELSE IF BadCurrency
          THEN r.status = 400
                 /\ r.error \in {"Unsupported currency", "Invalid currency format"}
        ELSE IF Data.amount > 1000
          THEN r.status = 400 /\ r.error = "Amount exceeds the allowed threshold"
        ELSE ~Refused

\* wrong credentials with an unsupported currency are answered 401
C11_CredentialsBeforeCurrency ==
    /\ Initialized
    /\ ~LacksField /\ BadCredentials /\ BadCurrency
    /\ Get(Request, "api_key") = "wrong" /\ Get(Request, "currency") = "JPY"
    /\ init.response.status = 401

\* the required fields that the body of the request answered last lacks
AbsentFields ==
    {"merchant_id", "api_key", "amount", "currency", "email"} \ DOMAIN Request

\* C12: a request whose body lacks merchant_id, api_key, amount, currency or
\* email is answered 400 'Missing required fields' with the absent fields
\* named, and no challenge is stored for it.
C12_AbsentFieldRefused ==
    Initialized /\ AbsentFields # {}
        => /\ init.response.status = 400
           /\ init.response.error = "Missing required fields"
           /\ \A f \in AbsentFields :
                \E i \in DOMAIN init.response.missing_fields :
                    init.response.missing_fields[i] = f
           /\ "challenge_id" \notin DOMAIN init.response

\* the merchant_id and api_key of the body are the credentials of a merchant
RequestCredentialsValid ==
    /\ {"merchant_id", "api_key"} \subseteq DOMAIN Request
    /\ Request.merchant_id \in DOMAIN MERCHANT_API_KEYS
    /\ MERCHANT_API_KEYS[Request.merchant_id] = Request.api_key

\* C13: a request whose merchant_id/api_key pair is not a stored merchant
\* credential gets no challenge and no notification, and is answered 401
\* when its required fields are present; a challenge is stored only for a
\* request whose credentials validated.
C13_NoChallengeWithoutCredentials ==
    Initialized /\ ~RequestCredentialsValid
        => /\ "challenge_id" \notin DOMAIN init.response
           /\ ~LacksField => init.response.status = 401

\* the request answered last passed the validations: its challenge is the
\* newest record
Accepted == Initialized /\ ~Refused
Newest == objects[Uuid4(Cardinality(DOMAIN objects))]

\* every /authpay/init request so far was refused or stored one challenge,
\* and the one answered last stored none
NothingStored == Cardinality(DOMAIN objects) < requests

\* C14: a request that passes the required-field and credential checks with
\* a supported currency code in any letter case is accepted and its record
\* holds the code in upper case; with any other currency code it is answered
\* 400 'Unsupported currency' with the supported codes listed, and nothing
\* is stored; every stored currency is an upper-case supported code.
C14_CurrencyNormalised ==
    /\ \A id \in DOMAIN objects : objects[id].currency \in {"USD", "EUR", "GBP"}
    /\ Initialized /\ ~LacksField /\ ~BadCredentials /\ Data.currency # NUMBER
         => IF BadCurrency
              THEN /\ init.response = [status |-> 400, error |-> "Unsupported currency",
                                       supported_currencies |-> {"USD", "EUR", "GBP"}]
                   /\ NothingStored
              ELSE Data.amount <= 1000
                     => /\ Accepted
                        /\ Newest.currency =
                             CASE Data.currency \in {"USD", "usd"} -> "USD"
                               [] Data.currency \in {"EUR", "eur"} -> "EUR"
                               [] Data.currency \in {"GBP", "gbp"} -> "GBP"

\* a lower-case code is accepted and stored in upper case
C14_LowerCaseStored ==
    /\ Accepted
    /\ Get(Request, "currency") = "usd"
    /\ Newest.currency = "USD"
    /\ Newest.challenge_id \in active_challenges

\* no notification has been dispatched but for a stored challenge
NoStrayNotification ==
    \A k \in Kinds, id \in Ids \ DOMAIN objects : sent[k][id] = 0

\* C15: a request with valid fields and an amount above the ceiling of 1000
\* is answered 400 'Amount exceeds the allowed threshold'; no challenge is
\* stored and no notification dispatched for it; an amount of 1000 or less
\* is accepted.
C15_CeilingExclusive ==
    Initialized /\ ~LacksField /\ ~BadCredentials /\ ~BadCurrency
        => IF Data.amount > 1000
             THEN /\ init.response =
                       [status |-> 400, error |-> "Amount exceeds the allowed threshold",
                        threshold |-> 1000]
                  /\ NothingStored
                  /\ NoStrayNotification
             ELSE Accepted /\ Newest.amount = Data.amount

\* an amount above the ceiling is refused and leaves nothing behind
C15_TooHighRefused ==
    /\ Initialized /\ ~LacksField /\ ~BadCredentials /\ ~BadCurrency
    /\ Data.amount = 1001
    /\ init.response.status = 400
    /\ NothingStored

C17_HighAmountReported ==
    /\ Initialized /\ ~LacksField /\ ~BadCredentials /\ ~BadCurrency
    /\ Data.amount >= 100 /\ Data.amount <= 1000
    => /\ init.response.status = 200
       /\ init.response.mfa_required
       /\ "reason" \in DOMAIN init.response
       /\ init.response.reason = "high_amount"

\* C18: Initialize dispatches the 'verification required' notification of a
\* stored challenge exactly when it has mfa_required = true, the 'fraud
\* alert' exactly when moreover its reason is high_risk_location,
\* suspicious_email or new_device, and nothing when mfa_required = false.
C18_NotificationsFollowRisk ==
    \A id \in DOMAIN objects :
        LET r == objects[id] IN
        /\ sent["mfa_required"][id] = IF r.mfa_required THEN 1 ELSE 0
        /\ sent["fraud_alert"][id] =
              IF r.mfa_required /\ r.reason \in
                     {"high_risk_location", "suspicious_email", "new_device"}
                THEN 1 ELSE 0
        /\ ~r.mfa_required => \A k \in Kinds : sent[k][id] = 0

\* a challenge raised for a new device got both notifications
C18_AlertForNewDevice ==
    \E id \in active_challenges :
        /\ objects[id].mfa_required /\ objects[id].reason = "new_device"
        /\ sent["mfa_required"][id] = 1 /\ sent["fraud_alert"][id] = 1

\* C19: a notification of Initialize is dispatched only for a record that
\* is stored, the success notification of Verify only for a record that is
\* marked verified, and when send_email failed the record is still stored,
\* respectively still verified, and the caller still gets the 200 response
\* of the challenge.
C19_CommitBeforeNotification ==
    /\ \A id \in Ids :
          /\ sent["mfa_required"][id] > 0 \/ sent["fraud_alert"][id] > 0
                => id \in DOMAIN objects
          /\ sent["success"][id] > 0
                => id \in DOMAIN objects /\ objects[id].verified
    /\ "undelivered" \in DOMAIN init /\ init.undelivered # {}
          => /\ init.response.status = 200
             /\ init.response.mfa_required
             /\ init.response.challenge_id \in DOMAIN objects
             /\ init.response.expires_in_seconds = CHALLENGE_EXPIRY_MINUTES * 60
    /\ "delivered" \in DOMAIN answer /\ ~answer.delivered
          => /\ answer.response.status = 200
             /\ answer.response.allow
             /\ answer.response.challenge_id = answer.challenge_id
             /\ objects[answer.challenge_id].verified

\* the verification mail of a challenge and the success mail of its
\* verification both failed, and the payment was allowed
C19_FailedMailStillAllowed ==
    /\ "undelivered" \in DOMAIN init /\ init.undelivered = {"mfa_required"}
    /\ "delivered" \in DOMAIN answer /\ ~answer.delivered
    /\ answer.challenge_id = init.response.challenge_id
    /\ answer.response.allow

\* C20: a request that passed the validations, got an mfa_required challenge
\* and names a card is answered 200 with the challenge_id, whatever the user
\* lookup and the MFA provider do.
C20_CollaboratorFailureIsSoft ==
    /\ Initialized /\ ~Refused
    /\ Bool(Get(Request, "cardNumber"))
    /\ Newest.mfa_required
    => /\ init.response.status = 200
       /\ "challenge_id" \in DOMAIN init.response
       /\ init.response.challenge_id = Newest.challenge_id

(***************************************************************************)
(* Properties of the store, of the sweep and of the error paths.           *)
(***************************************************************************)
\* C21: every stored challenge has expires_at = created_at + TTL exactly,
\* TTL being CHALLENGE_EXPIRY_MINUTES, also when the clock advances during
\* Initialize, and the response of Initialize reports TTL in seconds.
C21_ExpiryIsCreationPlusTtl ==
    /\ \A id \in DOMAIN objects :
          objects[id].expires_at = objects[id].created_at + CHALLENGE_EXPIRY_MINUTES
    /\ Initialized /\ init.response.status = 200
          => init.response.expires_in_seconds = CHALLENGE_EXPIRY_MINUTES * 60

\* C22: an Initialize answered 200 adds exactly one record, with verified =
\* false, under an id the store did not hold, and no Initialize changes or
\* replaces a record that exists.
C22_InitializeAddsOneRecord ==
    [][init' # init =>
         /\ \A id \in DOMAIN objects :
               id \in DOMAIN objects' /\ objects'[id] = objects[id]
         /\ active_challenges \subseteq active_challenges'
         /\ init'.response.status = 200 =>
               LET id == init'.response.challenge_id IN
               /\ id \notin DOMAIN objects
               /\ id \notin active_challenges
               /\ DOMAIN objects' = DOMAIN objects \cup {id}
               /\ active_challenges' = active_challenges \cup {id}
               /\ objects'[id].challenge_id = id
               /\ ~objects'[id].verified
               /\ objects'[id].verified_at = Unset]_vars

\* a second challenge was issued beside the first, later than it
C22_SecondBesideFirst ==
    /\ Initialized /\ init.response.status = 200
    /\ init.response.challenge_id = Uuid4(2)
    /\ active_challenges = {Uuid4(1), Uuid4(2)}
    /\ objects[Uuid4(1)].created_at < objects[Uuid4(2)].created_at
    /\ ~objects[Uuid4(1)].verified /\ ~objects[Uuid4(2)].verified

\* the ids of a list
Listed(ids) == {ids[i] : i \in DOMAIN ids}

\* a step of the /authpay/health request
SweepStep == sweep' # sweep

\* C23: a Sweep selects exactly the stored records whose expires_at is
\* earlier than its current time, removes nothing else and changes no
\* record, and when it ends every record it selected is removed.
C23_SweepRemovesTheExpired ==
    [][SweepStep =>
         /\ objects' = objects
         /\ sweep'.pc = "delete" /\ sweep.pc # "delete" =>
               /\ Listed(sweep'.expired_ids) =
                     {id \in active_challenges : objects[id].expires_at < now}
               /\ active_challenges' = active_challenges
         /\ sweep.pc = "delete" =>
               /\ active_challenges \ active_challenges'
                     \subseteq Listed(sweep.expired_ids)
               /\ active_challenges' \subseteq active_challenges
         /\ sweep'.pc = "done" =>
               active_challenges' \cap Listed(sweep.expired_ids) = {}]_vars

\* C24: a Sweep that ends returns to its caller the number of records it
\* removed.
C24_SweepReturnsCount ==
    [][SweepStep /\ sweep'.pc = "done" /\ sweep'.response.status = 200 =>
         /\ sweep'.returned # NONE
         /\ sweep'.returned = sweep.removed]_vars

C26_SweepNeverFails ==
    sweep.pc = "done"
        => /\ sweep.response.status = 200
           /\ sweep.response.body_status = "ok"

\* a /authpay/verify request is answered in this step
VerifyReturns == answer' # answer

\* C27: a Verify call for an id whose record has been removed from the store
\* when the call returns is answered NotFound (404) or Expired (410), and no
\* Verify call is answered with an internal error (500).
C27_RemovedNeverCrashes ==
    [][VerifyReturns =>
         /\ answer'.response.status # 500
         /\ answer'.challenge_id \in DOMAIN objects'
                /\ answer'.challenge_id \notin active_challenges'
              => answer'.response.status \in {404, 410}]_vars

\* C28: when a Verify call that passed the expiry check of line 190 returns,
\* the record of its challenge is in the store and marked verified.
C28_SweepSparesTransition ==
    [][VerifyReturns /\ answer'.pc \in {"verified", "stamp", "notify"} =>
         /\ answer'.challenge_id \in active_challenges'
         /\ objects'[answer'.challenge_id].verified]_vars

\* C29: an exception raised inside Initialize after the validations, or
\* inside Verify, is answered 500 'Internal server error' and nothing else:
\* the body carries no text of the exception.
C29_ExceptionsAreGeneric ==
    /\ Initialized /\ ~Refused /\ init.response.status # 200
          => init.response = [status |-> 500, error |-> "Internal server error"]
    /\ "response" \in DOMAIN answer /\ "error" \in DOMAIN answer.response
          => answer.response \in {MissingIdResponse, InternalErrorResponse}

\* C30: an Initialize answered with another status than 200 leaves the store
\* as it was and dispatches no notification.
C30_ErrorStoresNothing ==
    [][init' # init /\ init'.response.status # 200 =>
         /\ objects' = objects
         /\ active_challenges' = active_challenges
         /\ sent' = sent]_vars

(***************************************************************************)
(* Properties of the lifecycle of a challenge.                             *)
(***************************************************************************)
\* a step of a /authpay/verify request
VerifyStep == verify' # verify \/ answer' # answer

\* the thread that took the step, as it was before
Movers == BagToSet(verify (-) verify')

\* C31: a step of Verify changes at most the record of its challenge_id: the
\* expiry branch (answered 410) removes that record's key and nothing else,
\* the verification step writes the verified and verified_at fields of that
\* record and nothing else, and a Verify answered 400 'Missing
\* challenge_id', 404 or 409 has made no step that changes the store.
C31_VerifyTouchesOwnRecord ==
    [][VerifyStep =>
         /\ DOMAIN objects' = DOMAIN objects
         /\ \A id \in DOMAIN objects :
               \/ /\ objects'[id] = objects[id]
                  /\ id \in active_challenges' <=> id \in active_challenges
               \/ \E t \in Movers :
                    /\ t.challenge_id = id
                    /\ \/ /\ t.pc = "delete"
                          /\ objects'[id] = objects[id]
                          /\ active_challenges' = active_challenges \ {id}
                          /\ answer'.response = ExpiredResponse
                       \/ /\ t.pc \in {"mark", "stamp"}
                          /\ active_challenges' = active_challenges
                          /\ objects'[id] =
                                [objects[id] EXCEPT
                                    !.verified = objects'[id].verified,
                                    !.verified_at = objects'[id].verified_at]
         /\ answer' # answer /\ answer'.response.status \in {404, 409}
               => answer'.pc \in {"lookup", "verified"}
         /\ answer' # answer /\ answer'.response = MissingIdResponse
               => answer'.pc = "lookup"
         /\ \A t \in Movers : t.pc \in {"lookup", "fetch", "expiry", "verified"}
               => objects' = objects /\ active_challenges' = active_challenges
         /\ Movers = {}
               => objects' = objects /\ active_challenges' = active_challenges]_vars

\* a Verify was answered 410 and removed its record beside another one
C31_ExpiredRemovedAlone ==
    /\ answer.pc = "delete" /\ answer.response = ExpiredResponse
    /\ answer.challenge_id \notin active_challenges
    /\ active_challenges # {}

\* a first-verification result: 200 allow:true or 400 'Invalid proof
\* provided'
FirstResult(response) ==
    response.status = 200 \/ response = InvalidProofResponse

\* a first-verification result was returned for id
Consumed(id) == id \in rejected \/ sent["success"][id] > 0

\* C32: with one request at a time, the Verify results for an issued id are
\* monotone: a first-verification result is returned for it at most once,
\* after it only 409, 410 or 404 are returned, a 410 or 404 comes with the
\* id out of the store, an id out of the store is never stored again and
\* every Verify for it is answered 404.
C32_ResultsAreMonotone ==
    [][/\ \A id \in DOMAIN objects :
            id \notin active_challenges => id \notin active_challenges'
       /\ answer' # answer /\ "challenge_id" \in DOMAIN answer'
            /\ answer'.challenge_id \in DOMAIN objects
          => LET id == answer'.challenge_id
                 response == answer'.response
             IN /\ FirstResult(response) => ~Consumed(id)
                /\ Consumed(id) => response.status \in {409, 410, 404}
                /\ response.status \in {410, 404}
                      => id \notin active_challenges'
                /\ id \notin active_challenges
                      => response = NotFoundResponse]_vars

\* a challenge was approved, expired and was removed, and a later Verify for
\* it is answered 404
C32_ApprovedThenGone ==
    /\ answer.pc = "lookup" /\ answer.response = NotFoundResponse
    /\ answer.challenge_id \in DOMAIN objects
    /\ sent["success"][answer.challenge_id] = 1

\* the records that were issued and are no longer stored
Removed == DOMAIN objects \ active_challenges

\* C33: a record is out of the store only when its expires_at is earlier
\* than the clock, whichever of the sweep and Verify's expiry branch removed
\* it; so a Verify for an issued id is answered 404 only after the
\* expires_at of its record.
C33_OnlyExpiredAreRemoved ==
    /\ \A id \in Removed : objects[id].expires_at < now
    /\ \A t \in Verifiers : t.pc = "delete"
          => objects[t.challenge_id].expires_at < now
    /\ sweep.pc = "delete"
          => \A n \in 1..Len(sweep.expired_ids) :
                objects[sweep.expired_ids[n]].expires_at < now
    /\ answer.pc = "lookup" /\ answer.challenge_id \in DOMAIN objects
          => /\ answer.response = NotFoundResponse
             /\ objects[answer.challenge_id].expires_at < now

\* an expired record was removed while a record that has not expired stays
C33_ExpiredGoneFreshStays ==
    /\ \E id \in Removed : objects[id].expires_at < now
    /\ \E id \in active_challenges : objects[id].expires_at > now

\* the last instant of the modelled clock
Horizon == Instants[Len(Instants)]

C35_StoredAmountInRange ==
    \A id \in DOMAIN objects :
        objects[id].amount > 0 /\ objects[id].amount <= HIGH_AMOUNT

\* C36: every health check, once its sweep is over, answers 200 with status
\* 'ok' and with the number of records the sweep left in the store as
\* active_challenges.
C36_HealthAlwaysOk ==
    [][sweep.pc = "delete" /\ sweep'.pc = "done"
         => /\ sweep'.response.status = 200
            /\ sweep'.response.body_status = "ok"
            /\ sweep'.response.active_challenges
                  = Cardinality(active_challenges')]_vars

(***************************************************************************)
(* Properties of validation_service.py.                                    *)
(***************************************************************************)
\* the call of function has returned
Returned(function) ==
    /\ "result" \in DOMAIN call
    /\ call.pc = "returned"
    /\ call.function = function

\* C37: validate_merchant_api_key returns true if and only if merchant_id is
\* a key of MERCHANT_API_KEYS and api_key equals the key stored for it; for
\* an unknown merchant it returns false, also for the api_key None.
C37_TrueIffStoredKey ==
    Returned("validate_merchant_api_key") =>
        (call.result <=>
            /\ call.merchant_id \in DOMAIN MERCHANT_API_KEYS
            /\ call.api_key = MERCHANT_API_KEYS[call.merchant_id])

\* the part of an address after its last "@"
DomainPart(letters) ==
    LET ats == {n \in DOMAIN letters : letters[n] = "@"}
    IN IF ats = {} THEN <<>>
       ELSE SubSeq(letters,
                   (CHOOSE n \in ats : \A m \in ats : m <= n) + 1,
                   Len(letters))

\* none of the rules for the amount, the location and the device matches
NoEarlierRule ==
    /\ call.amount < MFA_REQUIRED_AMOUNT
    /\ ~(Bool(call.geo) /\ Upper(call.geo) # "US")
    /\ "new_device" \notin call.device_info

\* C38: when no rule for the amount, the location or the device matches,
\* should_require_mfa returns (True, "suspicious_email") if and only if the
\* domain part of the e-mail address contains, case-insensitively, one of
\* the fragments; a fragment in the local part alone does not count.
C38_DomainPartDecides ==
    Returned("should_require_mfa") /\ NoEarlierRule =>
        (call.result = <<TRUE, "suspicious_email">>
            <=> AnyFragmentIn(Lower(DomainPart(Letters(call.email)))))

(***************************************************************************)
(* Properties of DuoAuthService.                                           *)
(***************************************************************************)
\* C39: a transaction is created 'pending'; its status changes only from
\* 'pending' to 'approved' or 'denied'; a transaction that is approved or
\* denied is never changed, also by a further callback with its state; and
\* a callback that is answered 'error' changes no transaction.
C39_StatusIsTerminal ==
    [][/\ \A txid \in DOMAIN transactions' \ DOMAIN transactions :
            transactions'[txid].status = "pending"
       /\ \A txid \in DOMAIN transactions :
            /\ txid \in DOMAIN transactions'
            /\ transactions'[txid].status # transactions[txid].status
                  => /\ transactions[txid].status = "pending"
                     /\ transactions'[txid].status \in {"approved", "denied"}
            /\ transactions[txid].status \in {"approved", "denied"}
                  => transactions'[txid] = transactions[txid]
       /\ call' # call /\ call'.function = "handle_callback"
            /\ call'.result.status = "error"
          => transactions' = transactions]_vars

=============================================================================
